---- MODULE Spec2Model ----
(***************************************************************************)
(* Reziser: resize images onto a fixed TARGET_SIZE x TARGET_SIZE canvas.   *)
(*                                                                         *)
(* The module models src/reziser.py:                                       *)
(*   - the arithmetic of resize_image (binary64 division, multiplication   *)
(*     and int() truncation, as CPython evaluates lines 44-48), the        *)
(*     background selection and the placement;                             *)
(*   - the drivers process_file, process_files, process_folder and main    *)
(*     over a small POSIX file system.                                     *)
(***************************************************************************)
EXTENDS Integers, Sequences, FiniteSets, Bags, TLC

(***************************************************************************)
(* Program constants.                                                      *)
(***************************************************************************)
TARGET_SIZE == 3000

(***************************************************************************)
(* Python floats: IEEE 754 binary64, positive normal values only.  A float *)
(* is a record [e, m] whose significand m, an integer of 53 bits with the  *)
(* top bit set, is kept as five digits <<h, d1, d2, d3, d4>>:              *)
(*     m = h * 2^52 + d1 * 2^38 + d2 * 2^24 + d3 * 2^10 + d4,              *)
(* h = 1, d1..d3 of DigitBits bits and d4 of LastBits bits, so that no     *)
(* intermediate result leaves the model checker's 32-bit integers.  The    *)
(* float's value is m * 2^(e - 52), hence 2^e <= value < 2^(e+1).  Every   *)
(* operation rounds to nearest, ties to even, as the hardware does.  The   *)
(* integer operands are below 2^13, which covers every size of the model.  *)
(***************************************************************************)
DigitBits == 14
LastBits == 10

RECURSIVE Pow2(_)
Pow2(n) == IF n = 0 THEN 1 ELSE 2 * Pow2(n - 1)

Digit == Pow2(DigitBits)
LastDigit == Pow2(LastBits)

\* The exponent e with  b * 2^e <= a < b * 2^(e+1), for positive integers.
RECURSIVE ExponentOf(_, _, _)
ExponentOf(a, b, e) ==
    IF a < b THEN ExponentOf(2 * a, b, e - 1)
    ELSE IF a >= 2 * b THEN ExponentOf(a, 2 * b, e + 1)
    ELSE e

\* The significand plus one unit in the last place; a carry out of the top
\* bit gives the next power of two.
NextUp(f) ==
    LET m == f.m
    IN  IF m[5] + 1 < LastDigit THEN [f EXCEPT !.m[5] = m[5] + 1]
        ELSE IF m[4] + 1 < Digit THEN [f EXCEPT !.m = <<1, m[2], m[3], m[4] + 1, 0>>]
        ELSE IF m[3] + 1 < Digit THEN [f EXCEPT !.m = <<1, m[2], m[3] + 1, 0, 0>>]
        ELSE IF m[2] + 1 < Digit THEN [f EXCEPT !.m = <<1, m[2] + 1, 0, 0, 0>>]
        ELSE [e |-> f.e + 1, m |-> <<1, 0, 0, 0, 0>>]

\* Round to nearest, ties to even: f is the exact value cut to 53 bits,
\* guard the first bit cut off, rest whether any later bit is set.
RoundNearestEven(f, guard, rest) ==
    IF guard = 1 /\ (rest \/ f.m[5] % 2 = 1) THEN NextUp(f) ELSE f

\* a / b for positive Python ints: true division, correctly rounded.  With
\* num / den = a / (b * 2^e) in [1, 2), long division yields the quotient
\* digit by digit; the last step yields LastBits + 4 bits, of which the top
\* LastBits belong to the significand, the next is the guard bit.
IntDiv(a, b) ==
    LET e   == ExponentOf(a, b, 0)
        num == IF e < 0 THEN a * Pow2(-e) ELSE a
        den == IF e > 0 THEN b * Pow2(e) ELSE b
        r0  == num - den
        d1  == (r0 * Digit) \div den
        r1  == (r0 * Digit) % den
        d2  == (r1 * Digit) \div den
        r2  == (r1 * Digit) % den
        d3  == (r2 * Digit) \div den
        r3  == (r2 * Digit) % den
        q4  == (r3 * Digit) \div den
        r4  == (r3 * Digit) % den
    IN  RoundNearestEven([e |-> e, m |-> <<1, d1, d2, d3, q4 \div 16>>],
                         (q4 \div 8) % 2,
                         q4 % 8 # 0 \/ r4 # 0)

\* The number k with 2^k <= n < 2^(k+1).
RECURSIVE FloorLog2(_)
FloorLog2(n) == IF n < 2 THEN 0 ELSE 1 + FloorLog2(n \div 2)

\* n * f for a positive Python int n and a float f: n converts to a float
\* exactly, the product is rounded once.  The exact product of n and the
\* significand has digits <<top, p1, p2, p3, p4>> with top of k + 1 bits; the
\* result keeps its upper 53 bits, that is the product shifted right by k.
IntMulFloat(n, f) ==
    LET m   == f.m
        t4  == n * m[5]
        p4  == t4 % LastDigit
        t3  == n * m[4] + t4 \div LastDigit
        p3  == t3 % Digit
        t2  == n * m[3] + t3 \div Digit
        p2  == t2 % Digit
        t1  == n * m[2] + t2 \div Digit
        p1  == t1 % Digit
        top == n * m[1] + t1 \div Digit
        k   == FloorLog2(top)
        K   == Pow2(k)
        low == (p3 % K) * LastDigit + p4
        cut == [e |-> f.e + k,
                m |-> << top \div K,
                         ((top % K) * Digit + p1) \div K,
                         ((p1 % K) * Digit + p2) \div K,
                         ((p2 % K) * Digit + p3) \div K,
                         low \div K >>]
        dropped == low % K
    IN  IF k = 0 THEN cut
        ELSE RoundNearestEven(cut, dropped \div Pow2(k - 1),
                              dropped % Pow2(k - 1) # 0)

\* f < g.
FloatLess(f, g) ==
    \/ f.e < g.e
    \/ /\ f.e = g.e
       /\ \E j \in 1..5 : /\ f.m[j] < g.m[j]
                          /\ \A q \in 1..(j - 1) : f.m[q] = g.m[q]

\* Python's min(f, g): the first argument unless the second is smaller.
FloatMin(f, g) == IF FloatLess(g, f) THEN g ELSE f

\* int(f): truncation toward zero, that is the top f.e + 1 bits of the
\* significand, for f < 2^(2 * DigitBits + 1).
FloatToInt(f) ==
    IF f.e < 0 THEN 0
    ELSE IF f.e <= DigitBits
    THEN f.m[1] * Pow2(f.e) + f.m[2] \div Pow2(DigitBits - f.e)
    ELSE (f.m[1] * Digit + f.m[2]) * Pow2(f.e - DigitBits)
         + f.m[3] \div Pow2(2 * DigitBits - f.e)

(***************************************************************************)
(* Paths and file names.  A file name is the sequence of its characters; a *)
(* path is [dir, name] with dir the sequence of the names of its parent    *)
(* directories below the working directory.                                *)
(***************************************************************************)
Uppers == <<"A","B","C","D","E","F","G","H","I","J","K","L","M",
            "N","O","P","Q","R","S","T","U","V","W","X","Y","Z">>
Lowers == <<"a","b","c","d","e","f","g","h","i","j","k","l","m",
            "n","o","p","q","r","s","t","u","v","w","x","y","z">>

\* str.lower(), character by character.
LowerChar(c) ==
    IF \E k \in 1..Len(Uppers) : Uppers[k] = c
    THEN Lowers[CHOOSE k \in 1..Len(Uppers) : Uppers[k] = c]
    ELSE c

Lower(s) == [k \in 1..Len(s) |-> LowerChar(s[k])]

\* str.rfind("."): the last index of a dot, 0 when there is none (Python's
\* -1, moved to TLA+'s 1-based indices).
RFindDot(s) ==
    IF \E k \in 1..Len(s) : s[k] = "."
    THEN CHOOSE k \in 1..Len(s) : s[k] = "." /\ \A j \in (k+1)..Len(s) : s[j] # "."
    ELSE 0

\* pathlib's PurePath.suffix and PurePath.stem: the last dot splits the name
\* unless it is the first or the last character.
Suffix(name) ==
    LET k == RFindDot(name)
    IN  IF 1 < k /\ k < Len(name) THEN SubSeq(name, k, Len(name)) ELSE <<>>

Stem(name) ==
    LET k == RFindDot(name)
    IN  IF 1 < k /\ k < Len(name) THEN SubSeq(name, 1, k - 1) ELSE name

SUPPORTED_FORMATS ==
    { <<".","j","p","g">>, <<".","j","p","e","g">>, <<".","p","n","g">>,
      <<".","g","i","f">>, <<".","b","m","p">>, <<".","t","i","f","f">>,
      <<".","w","e","b","p">> }

\* The literal tail of f"{input_file.stem}_3000x3000.png".
OutputTail == <<"_","3","0","0","0","x","3","0","0","0",".","p","n","g">>

\* Faulty variant of OutputPath: the stem is not tagged with the size.
OutputPathUntagged(p) ==
    [dir |-> p.dir, name |-> Stem(p.name) \o <<".","p","n","g">>]

\* The default output path: next to the input, always .png.
OutputPath(p) == [dir |-> p.dir, name |-> Stem(p.name) \o OutputTail]

is_supported_image(p) == Lower(Suffix(p.name)) \in SUPPORTED_FORMATS

(***************************************************************************)
(* The file system maps each existing path to what is there, a record     *)
(* with a kind: "dir", a file that no codec can decode ("corrupt"), or an  *)
(* "image" file with what it decodes to: width, height, mode and           *)
(* transparency (whether the decoder puts a 'transparency' entry into      *)
(* img.info).                                                              *)
(***************************************************************************)
Directory == [kind |-> "dir"]

Corrupt == [kind |-> "corrupt"]

ImageFile(w, h, mode, transparency) ==
    [kind |-> "image", width |-> w, height |-> h, mode |-> mode,
     transparency |-> transparency]

isfile(f, p) == p \in DOMAIN f /\ f[p].kind # "dir"

isdir(f, p) == p \in DOMAIN f /\ f[p].kind = "dir"

\* Image.open(input_path) followed by the load that resize forces: fails on
\* a missing path, a directory and an undecodable file.
CanOpen(f, p) == p \in DOMAIN f /\ f[p].kind = "image"

\* new_img.save(output_path, 'PNG') fails when the path names a directory.
CanSave(f, out) == ~isdir(f, out)

Write(f, p, c) == [q \in DOMAIN f \cup {p} |-> IF q = p THEN c ELSE f[q]]

(***************************************************************************)
(* resize_image: the canvas-fitting transform.                             *)
(***************************************************************************)
\* Faulty variant of Scale: max instead of min, which fills the square instead of
\* fitting into it.
ScaleToFill(img) ==
    LET fw == IntDiv(TARGET_SIZE, img.width)
        fh == IntDiv(TARGET_SIZE, img.height)
    IN  IF FloatLess(fw, fh) THEN fh ELSE fw

\* scale = min(TARGET_SIZE / original_width, TARGET_SIZE / original_height)
Scale(img) ==
    FloatMin(IntDiv(TARGET_SIZE, img.width), IntDiv(TARGET_SIZE, img.height))

\* new_width = int(original_width * scale), new_height likewise.
ScaledSize(img, scale) ==
    [width  |-> FloatToInt(IntMulFloat(img.width, scale)),
     height |-> FloatToInt(IntMulFloat(img.height, scale))]

NewSize(img) == ScaledSize(img, Scale(img))

\* Faulty variant of UsesTransparentBackground: every indexed image counts as
\* transparent, whether or not it has a transparency entry.
UsesTransparentBackgroundAnyPalette(img) == img.mode \in {"RGBA", "LA", "P"}

\* The test of line 55: transparent background for images with alpha.
UsesTransparentBackground(img) ==
    img.mode \in {"RGBA", "LA"} \/ (img.mode = "P" /\ img.transparency)

\* Faulty variant of NewCanvas: the canvas takes the size of the resized image.
NewCanvasOfScaledSize(img) ==
    IF UsesTransparentBackground(img)
    THEN [mode |-> "RGBA", width |-> NewSize(img).width,
          height |-> NewSize(img).height, color |-> <<0, 0, 0, 0>>]
    ELSE [mode |-> "RGB", width |-> NewSize(img).width,
          height |-> NewSize(img).height, color |-> <<0, 0, 0>>]

\* Image.new(mode, (TARGET_SIZE, TARGET_SIZE), color)
NewCanvas(img) ==
    IF UsesTransparentBackground(img)
    THEN [mode |-> "RGBA", width |-> TARGET_SIZE, height |-> TARGET_SIZE,
          color |-> <<0, 0, 0, 0>>]
    ELSE [mode |-> "RGB", width |-> TARGET_SIZE, height |-> TARGET_SIZE,
          color |-> <<0, 0, 0>>]

\* The mode the resized image is converted to before it is pasted.
PastedMode(img) == IF UsesTransparentBackground(img) THEN "RGBA" ELSE "RGB"

\* x_offset = (TARGET_SIZE - new_width) // 2, y_offset likewise.
Offset(new_dim) == (TARGET_SIZE - new_dim) \div 2

\* The locals of a call that failed before any were set.
NoLocals ==
    [opened |-> FALSE, width |-> 0, height |-> 0, mode |-> "none",
     transparency |-> FALSE, new_width |-> 0, new_height |-> 0,
     resized |-> FALSE,
     canvas |-> [mode |-> "none", width |-> 0, height |-> 0, color |-> <<>>],
     pasted_mode |-> "none",
     x_offset |-> 0, y_offset |-> 0, saved |-> FALSE]

\* The locals once the new size is computed (line 48).
SizedLocals(img, size) ==
    [NoLocals EXCEPT !.opened = TRUE,
                     !.width = img.width, !.height = img.height,
                     !.mode = img.mode, !.transparency = img.transparency,
                     !.new_width = size.width, !.new_height = size.height]

\* The locals once the resized image is pasted (line 73).
PastedLocals(img, size) ==
    [SizedLocals(img, size) EXCEPT !.resized = TRUE,
                                   !.canvas = NewCanvas(img),
                                   !.pasted_mode = PastedMode(img),
                                   !.x_offset = Offset(size.width),
                                   !.y_offset = Offset(size.height)]

\* The except branch (lines 86-88): False, the file system as it was.
Failed(f, locals) == [ok |-> FALSE, fs |-> f, locals |-> locals]

\* Lines 75-84: the canvas is saved as PNG at the output path.
Save(f, out, canvas, locals) ==
    IF ~CanSave(f, out) THEN Failed(f, locals)
    ELSE [ok |-> TRUE,
          fs |-> Write(f, out, ImageFile(canvas.width, canvas.height,
                                         canvas.mode, FALSE)),
          locals |-> [locals EXCEPT !.saved = TRUE]]

\* Lines 51-84.  allow_empty: whether the installed imaging library
\* resamples to an empty size; otherwise img.resize raises ValueError.
Resample(f, allow_empty, p, img, size) ==
    IF (size.width < 1 \/ size.height < 1) /\ ~allow_empty
    THEN Failed(f, SizedLocals(img, size))
    ELSE Save(f, OutputPath(p), NewCanvas(img), PastedLocals(img, size))

\* resize_image(input_path) with output_path = None, on file system f: the
\* returned flag, the file system afterwards and the locals reached.
resize_image(f, allow_empty, p) ==
    IF ~CanOpen(f, p) THEN Failed(f, NoLocals)
    ELSE Resample(f, allow_empty, p, f[p], NewSize(f[p]))

\* Faulty variant of process_file: the format check is missing.
process_file_unchecked(f, allow_empty, p) ==
    IF ~isfile(f, p) THEN [ok |-> FALSE, fs |-> f, called |-> FALSE, locals |-> NoLocals]
    ELSE LET r == resize_image(f, allow_empty, p)
         IN  [ok |-> r.ok, fs |-> r.fs, called |-> TRUE, locals |-> r.locals]

\* process_file(file_path): validate, then resize.
process_file(f, allow_empty, p) ==
    IF ~isfile(f, p) THEN [ok |-> FALSE, fs |-> f, called |-> FALSE, locals |-> NoLocals]
    ELSE IF ~is_supported_image(p)
         THEN [ok |-> FALSE, fs |-> f, called |-> FALSE, locals |-> NoLocals]
         ELSE LET r == resize_image(f, allow_empty, p)
              IN  [ok |-> r.ok, fs |-> r.fs, called |-> TRUE, locals |-> r.locals]

\* process_files(file_paths) from file system f: the counts returned and the
\* file system left, the paths taken in list order.
RECURSIVE process_files(_, _, _)
process_files(f, allow_empty, file_paths) ==
    IF file_paths = <<>>
    THEN [success_count |-> 0, failure_count |-> 0, fs |-> f]
    ELSE LET r    == process_file(f, allow_empty, Head(file_paths))
             rest == process_files(r.fs, allow_empty, Tail(file_paths))
         IN  [success_count |-> rest.success_count + (IF r.ok THEN 1 ELSE 0),
              failure_count |-> rest.failure_count + (IF r.ok THEN 0 ELSE 1),
              fs |-> rest.fs]

\* The directory a folder path's children live in.
Inside(folder) == Append(folder.dir, folder.name)

IsPrefix(s, t) == Len(s) <= Len(t) /\ SubSeq(t, 1, Len(s)) = s

EndsWith(name, tail) ==
    Len(name) >= Len(tail) /\ SubSeq(name, Len(name) - Len(tail) + 1, Len(name)) = tail

\* folder.glob(f"*{ext}") on POSIX: the entries directly inside the folder,
\* files and directories alike, whose name ends with ext, compared case by
\* case.
glob(f, folder, ext) ==
    {p \in DOMAIN f : p.dir = Inside(folder) /\ EndsWith(p.name, ext)}

\* folder.rglob(f"*{ext}"): the same over the whole subtree.
rglob(f, folder, ext) ==
    {p \in DOMAIN f : IsPrefix(Inside(folder), p.dir) /\ EndsWith(p.name, ext)}

\* The list image_files of process_folder, as the set of its elements: one
\* <<ext, path>> for each hit of each pattern.  Lists are extended in the
\* iteration order of a set of strings and of a directory scan, neither of
\* which is fixed, so the elements carry no order.
FindImageFiles(f, folder, recursive) ==
    {<<ext, p>> : ext \in SUPPORTED_FORMATS, p \in DOMAIN f} \cap
    UNION { {<<ext, p>> : p \in IF recursive THEN rglob(f, folder, ext)
                                           ELSE glob(f, folder, ext)}
            : ext \in SUPPORTED_FORMATS }

(***************************************************************************)
(* Bounds of the model and the inputs drawn within them.                   *)
(***************************************************************************)
\* Widths and heights 1..MaxDim, plus the sizes of ExtraDims.
MaxDim == 12

\* The longest argument list given to main.
MaxPaths == 2

\* Sizes around and beyond TARGET_SIZE, and small ones whose quotient
\* TARGET_SIZE / size is not a binary fraction.
ExtraDims == {91, 300, 500, 1000, 2000, 3000, 3001, 4000}

Dims == (1..MaxDim) \cup ExtraDims

\* Modes a decoder hands out: bilevel, grayscale (with alpha), indexed,
\* RGB (with alpha).
Modes == {"1", "L", "LA", "P", "RGB", "RGBA"}

Cwd == <<>>

NameA    == <<"a",".","p","n","g">>
NameB    == <<"a",".","J","P","G">>
NameC    == <<"c",".","t","x","t">>
NameAOut == <<"a">> \o OutputTail
FolderD  == <<"d">>
FolderE  == <<"e">>
FolderS  == <<"s">>

PathIn(dir, name) == [dir |-> dir, name |-> name]

\* A file system from a choice of content, or "absent", for some paths.
Absent == [kind |-> "absent"]

MakeFs(choice) ==
    LET present == {p \in DOMAIN choice : choice[p].kind # "absent"}
    IN  [p \in present |-> choice[p]]

ImgWide == ImageFile(4000, 2000, "RGB", FALSE)
ImgFlat == ImageFile(4000, 1, "RGBA", FALSE)

\* File mode: what the working directory holds.
FileNames == {NameA, NameB, NameC, NameAOut}

FileModeFs(a, b, c, o) ==
    MakeFs(PathIn(Cwd, NameA) :> a @@ PathIn(Cwd, NameB) :> b @@
           PathIn(Cwd, NameC) :> c @@ PathIn(Cwd, NameAOut) :> o)

\* Batch mode: folder d with content d, its entries a, b, c and the subfolder
\* s with entries sa and sb; nothing exists outside a directory.  Folder e
\* is missing.
BatchModeFs(d, a, b, c, sub, sa, sb) ==
    LET in_d(x) == IF d = Directory THEN x ELSE Absent
        in_s(x) == IF d = Directory /\ sub = Directory THEN x ELSE Absent
    IN  MakeFs(PathIn(Cwd, FolderD) :> d @@
               PathIn(<<FolderD>>, NameA) :> in_d(a) @@
               PathIn(<<FolderD>>, NameB) :> in_d(b) @@
               PathIn(<<FolderD>>, NameC) :> in_d(c) @@
               PathIn(<<FolderD>>, FolderS) :> in_d(sub) @@
               PathIn(<<FolderD, FolderS>>, NameA) :> in_s(sa) @@
               PathIn(<<FolderD, FolderS>>, NameB) :> in_s(sb))

\* The argument lists: one to n paths.
SeqsUpTo(S, n) == UNION {[1..k -> S] : k \in 1..n}

VARIABLES
    fs,              \* the file system
    fs0,             \* the file system main started on
    allow_empty,     \* whether the imaging library resamples to an empty size
    args,            \* argparse's result: paths, batch, recursive
    pc,              \* where the program is
    i,               \* index of the next path of args.paths
    image_files,     \* process_folder: glob hits <<ext, path>> not yet processed
    success_count,   \* locals of process_files / process_folder
    failure_count,
    total_success,   \* locals of main
    total_failure,
    exit_code,       \* what sys.exit was given, -1 before
    processed,       \* the paths process_file was called on, in order
    calls,           \* the bag of paths resize_image was called on
    results,         \* the flag each processed image came back with, in order
    last,            \* the locals of the last resize_image call
    entered          \* process_folder: the file system and the calls on entry

vars == <<fs, fs0, allow_empty, args, pc, i, image_files, success_count,
          failure_count, total_success, total_failure, exit_code, processed,
          calls, results, last, entered>>

NoArgs == [paths |-> <<>>, batch |-> FALSE, recursive |-> FALSE]

Idle ==
    /\ i = 1
    /\ image_files = {}
    /\ success_count = 0
    /\ failure_count = 0
    /\ total_success = 0
    /\ total_failure = 0
    /\ exit_code = -1
    /\ processed = <<>>
    /\ calls = EmptyBag
    /\ results = <<>>
    /\ last = NoLocals
    /\ entered = [fs |-> fs, calls |-> EmptyBag]

(***************************************************************************)
(* A direct call of resize_image on one image file, as the unit tests      *)
(* make it.                                                                *)
(***************************************************************************)
TestPath == PathIn(Cwd, NameA)

FitInit ==
    /\ \E w \in Dims, h \in Dims, mode \in Modes, tr \in BOOLEAN :
          fs = MakeFs(TestPath :> ImageFile(w, h, mode, tr))
    /\ fs0 = fs
    /\ allow_empty \in BOOLEAN
    /\ args = NoArgs
    /\ pc = "test"
    /\ Idle

CallResizeImage ==
    /\ pc = "test"
    /\ LET r == resize_image(fs, allow_empty, TestPath)
       IN  /\ fs' = r.fs
           /\ last' = r.locals
           /\ calls' = calls (+) SetToBag({TestPath})
           /\ results' = Append(results, r.ok)
    /\ pc' = "tested"
    /\ UNCHANGED <<fs0, allow_empty, args, i, image_files, success_count,
                   failure_count, total_success, total_failure, exit_code,
                   processed, entered>>

FitNext == CallResizeImage

FitSpec == FitInit /\ [][FitNext]_vars

(***************************************************************************)
(* main: the command line run.  File mode ignores args.recursive, so the   *)
(* flag varies in batch mode only.                                         *)
(***************************************************************************)
Init ==
    /\ \/ /\ \E a \in {Absent, Directory, Corrupt, ImgWide, ImgFlat},
                b \in {Absent, ImgWide}, c \in {Absent, ImgWide},
                o \in {Absent, Directory, Corrupt, ImgWide} :
                fs = FileModeFs(a, b, c, o)
          /\ \E paths \in SeqsUpTo({PathIn(Cwd, n) : n \in FileNames}, MaxPaths) :
                args = [paths |-> paths, batch |-> FALSE, recursive |-> FALSE]
       \/ /\ \E d \in {Absent, Directory, Corrupt},
                a \in {Absent, Directory, Corrupt, ImgWide, ImgFlat},
                b \in {Absent, ImgWide}, c \in {Absent, ImgWide},
                sub \in {Absent, Directory},
                sa \in {Absent, Corrupt, ImgWide}, sb \in {Absent, ImgWide} :
                fs = BatchModeFs(d, a, b, c, sub, sa, sb)
          /\ \E paths \in SeqsUpTo({PathIn(Cwd, FolderD), PathIn(Cwd, FolderE)}, MaxPaths),
                recursive \in BOOLEAN :
                args = [paths |-> paths, batch |-> TRUE, recursive |-> recursive]
    /\ fs0 = fs
    /\ allow_empty \in BOOLEAN
    /\ pc = "main"
    /\ Idle

\* main calls process_files(args.paths): lines 211 and 116-117.
EnterProcessFiles ==
    /\ pc = "main"
    /\ ~args.batch
    /\ pc' = "files"
    /\ i' = 1
    /\ success_count' = 0
    /\ failure_count' = 0
    /\ UNCHANGED <<fs, fs0, allow_empty, args, image_files, total_success,
                   total_failure, exit_code, processed, calls, results, last,
                   entered>>

\* Faulty variant of ProcessFilesStep: the loop is left at the first failure.
ProcessFilesStepAborting ==
    /\ pc = "files"
    /\ i <= Len(args.paths)
    /\ LET p == args.paths[i]
           r == process_file(fs, allow_empty, p)
       IN  /\ fs' = r.fs
           /\ processed' = Append(processed, p)
           /\ results' = Append(results, r.ok)
           /\ calls' = IF r.called THEN calls (+) SetToBag({p}) ELSE calls
           /\ last' = IF r.called THEN r.locals ELSE last
           /\ success_count' = IF r.ok THEN success_count + 1 ELSE success_count
           /\ failure_count' = IF r.ok THEN failure_count ELSE failure_count + 1
           /\ i' = IF r.ok THEN i + 1 ELSE Len(args.paths) + 1
    /\ UNCHANGED <<fs0, allow_empty, args, pc, image_files, total_success,
                   total_failure, exit_code, entered>>

\* One iteration of the loop of process_files: process_file(file_path), and
\* whatever resize_image does under it, then the count.
ProcessFilesStep ==
    /\ pc = "files"
    /\ i <= Len(args.paths)
    /\ LET p == args.paths[i]
           r == process_file(fs, allow_empty, p)
       IN  /\ fs' = r.fs
           /\ processed' = Append(processed, p)
           /\ results' = Append(results, r.ok)
           /\ calls' = IF r.called THEN calls (+) SetToBag({p}) ELSE calls
           /\ last' = IF r.called THEN r.locals ELSE last
           /\ success_count' = IF r.ok THEN success_count + 1 ELSE success_count
           /\ failure_count' = IF r.ok THEN failure_count ELSE failure_count + 1
    /\ i' = i + 1
    /\ UNCHANGED <<fs0, allow_empty, args, pc, image_files, total_success,
                   total_failure, exit_code, entered>>

\* process_files returns; main adds the counts to its totals.
ProcessFilesReturn ==
    /\ pc = "files"
    /\ i > Len(args.paths)
    /\ total_success' = total_success + success_count
    /\ total_failure' = total_failure + failure_count
    /\ pc' = "summary"
    /\ UNCHANGED <<fs, fs0, allow_empty, args, i, image_files, success_count,
                   failure_count, exit_code, processed, calls, results, last,
                   entered>>

\* Batch mode: main starts its loop over the folders.
EnterBatch ==
    /\ pc = "main"
    /\ args.batch
    /\ pc' = "folders"
    /\ i' = 1
    /\ UNCHANGED <<fs, fs0, allow_empty, args, image_files, success_count,
                   failure_count, total_success, total_failure, exit_code,
                   processed, calls, results, last, entered>>

\* process_folder up to its loop (lines 139-162): a path that is no
\* directory, or a folder without hits, returns (0, 0) at once.
ProcessFolderEnter ==
    /\ pc = "folders"
    /\ i <= Len(args.paths)
    /\ LET folder == args.paths[i]
           found  == FindImageFiles(fs, folder, args.recursive)
       IN  IF ~isdir(fs, folder) \/ found = {}
           THEN /\ i' = i + 1
                /\ UNCHANGED <<pc, image_files, success_count, failure_count>>
           ELSE /\ pc' = "folder_loop"
                /\ image_files' = found
                /\ success_count' = 0
                /\ failure_count' = 0
                /\ i' = i
    /\ entered' = [fs |-> fs, calls |-> calls]
    /\ UNCHANGED <<fs, fs0, allow_empty, args, total_success, total_failure,
                   exit_code, processed, calls, results, last>>

\* One iteration of the loop of process_folder: resize_image(str(img_file)).
ProcessFolderStep ==
    /\ pc = "folder_loop"
    /\ \E hit \in image_files :
          LET r == resize_image(fs, allow_empty, hit[2])
          IN  /\ image_files' = image_files \ {hit}
              /\ fs' = r.fs
              /\ calls' = calls (+) SetToBag({hit[2]})
              /\ results' = Append(results, r.ok)
              /\ last' = r.locals
              /\ success_count' = IF r.ok THEN success_count + 1 ELSE success_count
              /\ failure_count' = IF r.ok THEN failure_count ELSE failure_count + 1
    /\ UNCHANGED <<fs0, allow_empty, args, pc, i, total_success, total_failure,
                   exit_code, processed, entered>>

\* process_folder returns; main adds the counts and takes the next folder.
ProcessFolderReturn ==
    /\ pc = "folder_loop"
    /\ image_files = {}
    /\ total_success' = total_success + success_count
    /\ total_failure' = total_failure + failure_count
    /\ i' = i + 1
    /\ pc' = "folders"
    /\ UNCHANGED <<fs, fs0, allow_empty, args, image_files, success_count,
                   failure_count, exit_code, processed, calls, results, last,
                   entered>>

\* The loop over the folders ends.
BatchDone ==
    /\ pc = "folders"
    /\ i > Len(args.paths)
    /\ pc' = "summary"
    /\ UNCHANGED <<fs, fs0, allow_empty, args, i, image_files, success_count,
                   failure_count, total_success, total_failure, exit_code,
                   processed, calls, results, last, entered>>

\* Faulty variant of ExitCode: a single failure is let through.
ExitCodeOffByOne(failures) == IF failures <= 1 THEN 0 ELSE 1

\* The code main exits with.
ExitCode(failures) == IF failures = 0 THEN 0 ELSE 1

\* sys.exit(0 if total_failure == 0 else 1)
Exit ==
    /\ pc = "summary"
    /\ exit_code' = ExitCode(total_failure)
    /\ pc' = "exited"
    /\ UNCHANGED <<fs, fs0, allow_empty, args, i, image_files, success_count,
                   failure_count, total_success, total_failure, processed,
                   calls, results, last, entered>>

Next ==
    \/ EnterProcessFiles
    \/ ProcessFilesStep
    \/ ProcessFilesReturn
    \/ EnterBatch
    \/ ProcessFolderEnter
    \/ ProcessFolderStep
    \/ ProcessFolderReturn
    \/ BatchDone
    \/ Exit

Spec == Init /\ [][Next]_vars

(***************************************************************************)
(* Properties of resize_image, checked under FitSpec.                      *)
(***************************************************************************)
Tested == pc = "tested"

\* C1: whatever the size of the source and whatever the background, the
\* canvas resize_image composes is TARGET_SIZE x TARGET_SIZE, and so is the
\* image it saves at the output path; a source no larger than the target
\* is not rejected, it is upscaled and saved.
C1_CanvasIsTargetSize ==
    /\ Tested /\ last.resized =>
          /\ last.canvas.width = TARGET_SIZE
          /\ last.canvas.height = TARGET_SIZE
          /\ last.saved =>
                LET out == fs[OutputPath(TestPath)]
                IN  out.kind = "image" /\ out.width = TARGET_SIZE
                                      /\ out.height = TARGET_SIZE
    /\ Tested /\ last.width <= TARGET_SIZE /\ last.height <= TARGET_SIZE =>
          last.saved /\ results = <<TRUE>>

\* A small RGBA source, upscaled and saved.
C1_Witness ==
    /\ Tested /\ last.saved
    /\ last.width < TARGET_SIZE /\ last.height < TARGET_SIZE
    /\ last.mode = "RGBA"

\* C2: a wide image's new width is TARGET_SIZE, a tall image's new height
\* is TARGET_SIZE, a square image's both are, and neither new dimension
\* exceeds TARGET_SIZE.
C2_ScaledSideReachesTarget ==
    Tested /\ last.opened =>
        /\ last.width > last.height => last.new_width = TARGET_SIZE
        /\ last.height > last.width => last.new_height = TARGET_SIZE
        /\ last.width = last.height =>
              last.new_width = TARGET_SIZE /\ last.new_height = TARGET_SIZE
        /\ last.new_width <= TARGET_SIZE
        /\ last.new_height <= TARGET_SIZE

\* C3: the placement keeps the scaled image inside the canvas: both offsets
\* are at least 0, and offset plus scaled dimension is at most TARGET_SIZE.
C3_PlacementInsideCanvas ==
    Tested /\ last.resized =>
        /\ last.x_offset >= 0
        /\ last.y_offset >= 0
        /\ last.x_offset + last.new_width <= TARGET_SIZE
        /\ last.y_offset + last.new_height <= TARGET_SIZE

\* The 4000 x 2000 source: scaled to 3000 x 1500, pasted at (0, 750).
C3_Witness ==
    /\ Tested /\ last.saved
    /\ last.width = 4000 /\ last.height = 2000
    /\ last.new_width = 3000 /\ last.new_height = 1500
    /\ last.x_offset = 0 /\ last.y_offset = 750

\* C4: a source of mode RGBA or LA, or of mode P with a transparency entry,
\* gets a 4-channel RGBA canvas filled with transparent black and is pasted
\* as RGBA; every other source gets a 3-channel RGB canvas filled with
\* black.  The saved image has an alpha channel exactly in the first case.
C4_BackgroundFollowsSource ==
    Tested /\ last.resized =>
        LET alpha == \/ last.mode = "RGBA"
                     \/ last.mode = "LA"
                     \/ (last.mode = "P" /\ last.transparency)
        IN  /\ alpha => /\ last.canvas.mode = "RGBA"
                        /\ last.canvas.color = <<0, 0, 0, 0>>
                        /\ last.pasted_mode = "RGBA"
            /\ ~alpha => /\ last.canvas.mode = "RGB"
                         /\ last.canvas.color = <<0, 0, 0>>
            /\ last.saved =>
                  (fs[OutputPath(TestPath)].mode = "RGBA" <=> alpha)

\* An indexed source with a transparency entry, saved with alpha; the same
\* mode without the entry is reached as well and saved opaque.
C4_Witness ==
    /\ Tested /\ last.saved
    /\ last.mode = "P" /\ last.transparency
    /\ fs[OutputPath(TestPath)].mode = "RGBA"

\* C10: both scaled dimensions are at least 1 for every source of positive
\* width and height.
C10_ScaledSizeNotEmpty ==
    Tested /\ last.opened => last.new_width >= 1 /\ last.new_height >= 1

(***************************************************************************)
(* Properties of the command line run, checked under Spec.                 *)
(***************************************************************************)
FileMode == ~args.batch

Failures == {k \in 1..Len(results) : ~results[k]}

\* C5: process_files takes every path exactly once, in list order, however
\* many earlier paths failed, and its two counts add up to the number of
\* paths taken.
C5_EveryPathProcessedOnce ==
    FileMode =>
        /\ pc = "files" =>
              /\ processed = SubSeq(args.paths, 1, i - 1)
              /\ success_count + failure_count = i - 1
              /\ failure_count = Cardinality(Failures)
        /\ pc \in {"summary", "exited"} =>
              /\ processed = args.paths
              /\ success_count + failure_count = Len(args.paths)
              /\ failure_count = Cardinality(Failures)

\* The first path failed inside resize_image, the second succeeded.
C5_Witness ==
    /\ FileMode /\ pc = "exited"
    /\ Len(args.paths) = 2
    /\ results = <<FALSE, TRUE>>
    /\ BagCardinality(calls) = 2

\* C6: main exits with 1 if some processed image failed and with 0
\* otherwise; a batch path that is no directory adds nothing to either
\* total.
C6_ExitCodeReportsFailures ==
    pc = "exited" =>
        /\ exit_code = (IF Failures # {} THEN 1 ELSE 0)
        /\ total_failure = Cardinality(Failures)
        /\ total_success = Len(results) - Cardinality(Failures)
        /\ (args.batch /\ \A k \in 1..Len(args.paths) : ~isdir(fs0, args.paths[k]))
              => total_success = 0 /\ total_failure = 0 /\ exit_code = 0

\* A batch run over a missing folder and a folder whose images all
\* succeed: exit code 0.
C6_Witness ==
    /\ pc = "exited" /\ args.batch
    /\ \E k \in 1..Len(args.paths) : ~isdir(fs0, args.paths[k])
    /\ total_success >= 1
    /\ exit_code = 0

\* Whether process_file must reject path p on file system f.
Invalid(f, p) ==
    ~isfile(f, p) \/ Lower(Suffix(p.name)) \notin SUPPORTED_FORMATS

\* C7: in file mode a path that is no existing file, or whose lower-cased
\* extension is not supported, is counted as a failure without a call of
\* resize_image and without any change to the file system.
C7_ValidatedBeforeDecode ==
    [][ (pc = "files" /\ i <= Len(args.paths) /\ Invalid(fs, args.paths[i])) =>
            /\ calls' = calls
            /\ fs' = fs
            /\ failure_count' = failure_count + 1
            /\ success_count' = success_count
            /\ results' = Append(results, FALSE) ]_vars

\* A decodable image named c.txt was rejected: counted, not resized.
C7_Witness ==
    /\ FileMode /\ pc = "files" /\ i = 2
    /\ args.paths[1] = PathIn(Cwd, NameC)
    /\ isfile(fs0, args.paths[1])
    /\ fs0[args.paths[1]].kind = "image"
    /\ failure_count = 1
    /\ calls = EmptyBag
    /\ fs = fs0

\* The files process_folder is to find: those of the folder, or of its
\* whole subtree, whose extension is supported whatever its case.
SupportedFilesOf(f, folder, recursive) ==
    {p \in DOMAIN f :
        /\ IF recursive THEN IsPrefix(Inside(folder), p.dir)
                        ELSE p.dir = Inside(folder)
        /\ isfile(f, p)
        /\ Lower(Suffix(p.name)) \in SUPPORTED_FORMATS}

\* C8: once process_folder has returned, the paths it gave to resize_image
\* are exactly the supported files of the folder (of the subtree in
\* recursive mode), extensions compared without regard to case, each given
\* once.
C8_DiscoveryIgnoresCase ==
    (args.batch /\ pc = "folders" /\ i > 1 /\ isdir(entered.fs, args.paths[i - 1])) =>
        LET given == calls (-) entered.calls
            want  == SupportedFilesOf(entered.fs, args.paths[i - 1], args.recursive)
        IN  /\ BagToSet(given) = want
            /\ BagCardinality(given) = Cardinality(want)

\* The orders a list can be taken in.
OrdersOf(s) ==
    LET n == Len(s)
        bijections == {f \in [1..n -> 1..n] :
                         \A a, b \in 1..n : a # b => f[a] # f[b]}
    IN  {[k \in 1..n |-> s[f[k]]] : f \in bijections}

\* The counts of process_files over the paths taken in the given order,
\* from the file system main started on.
CountsInOrder(order) ==
    LET r == process_files(fs0, allow_empty, order)
    IN  <<r.success_count, r.failure_count>>

\* No listed path is where the output of another listed path is written.
NoOutputIsAnInput ==
    \A j, k \in 1..Len(args.paths) :
        args.paths[j] # [dir |-> args.paths[k].dir,
                         name |-> Stem(args.paths[k].name) \o OutputTail]

\* C9 as stated: the counts are the same for every order of the paths.
C9_CountsIgnoreOrder ==
    (FileMode /\ pc = "summary") =>
        \A order \in OrdersOf(args.paths) :
            CountsInOrder(order) = <<success_count, failure_count>>

\* C9 as amended: the counts are the same for every order of the paths,
\* provided no listed path is the output path of another listed path.
C9_CountsIgnoreOrderOfDisjointPaths ==
    (FileMode /\ pc = "summary" /\ NoOutputIsAnInput) =>
        \A order \in OrdersOf(args.paths) :
            CountsInOrder(order) = <<success_count, failure_count>>

\* Two different paths with the same output path, one failing and one
\* succeeding.
C9_Witness ==
    /\ FileMode /\ pc = "summary" /\ NoOutputIsAnInput
    /\ Len(args.paths) = 2
    /\ args.paths[1] # args.paths[2]
    /\ OutputPath(args.paths[1]) = OutputPath(args.paths[2])
    /\ success_count = 1 /\ failure_count = 1

====
